---- MODULE Spec2Model ----
(***************************************************************************)
(* soci-wrapper: the build-and-publish pipeline of main.go.                *)
(*                                                                         *)
(* main reads os.Args and calls process; process derives the registry URL, *)
(* validates the manifest, creates a scratch directory under /tmp, opens   *)
(* the stores, pulls the image, builds the SOCI index, selects the latest  *)
(* index descriptor, pushes it, and removes the scratch directory in a     *)
(* deferred cleanUp.  Every external call (registry, soci library,         *)
(* filesystem) is a step whose result is chosen nondeterministically.      *)
(***************************************************************************)
EXTENDS Integers, Sequences, FiniteSets, TLC

VARIABLES
    pc,                   \* position of the single thread of control
    caller,               \* "main" or "direct": who called process
    osArgs,               \* os.Args (osArgs[k+1] is os.Args[k])
    exitCode,             \* exit status of the program, -1 while running
    stdout,               \* lines printed with fmt.Println
    panicked,             \* a runtime panic ended main
    repo, digest, region, account,   \* parameters of process
    ctxCancellable,       \* the ctx given to process can be cancelled
    ctxDone,              \* ctx.Done() is closed
    registryUrl,          \* process: registryUrl
    registry,             \* process: registry (client handle)
    dataDir,              \* process: dataDir
    deferred,             \* defer cleanUp(ctx, dataDir) is registered
    fs,                   \* paths existing under /tmp
    others,               \* paths owned by other live invocations
    sociStore,            \* process: sociStore, the path it is rooted at
    artifactsDb,          \* buildIndex: artifactsDb, the path of its file
    containerdStore,      \* buildIndex: containerdStore, its root path
    builder,              \* buildIndex: builder exists
    image,                \* process: image
    dbRecords,            \* records held by the metadata database
    indexDescriptorInfos, \* buildIndex: indexDescriptorInfos
    indexDescriptor,      \* process: indexDescriptor
    pushed,               \* what registry.Push was given
    retMsg, retErr,       \* the values process returns
    stepErr,              \* the error the failing call produced
    cleanUpErr,           \* os.RemoveAll failed inside cleanUp
    trace                 \* the external calls attempted, in order

vars == <<pc, caller, osArgs, exitCode, stdout, panicked, repo, digest, region,
          account, ctxCancellable, ctxDone, registryUrl, registry, dataDir,
          deferred, fs, others, sociStore, artifactsDb, containerdStore,
          builder, image, dbRecords, indexDescriptorInfos, indexDescriptor, pushed,
          retMsg, retErr, stepErr, cleanUpErr, trace>>

(***************************************************************************)
(* Bounds                                                                  *)
(***************************************************************************)
MaxArgs == 5        \* command-line arguments given to the program: 0..MaxArgs
MaxDirs == 2        \* names os.MkdirTemp can draw in /tmp
MaxDescs == 2       \* index descriptors the builder can record
MaxTime == 2        \* creation timestamps 1..MaxTime
MaxRegionLen == 3   \* length of a region string (URL derivation)

(***************************************************************************)
(* Values                                                                  *)
(***************************************************************************)
\* nil: no error, no handle, no image.  The empty string is "", the empty
\* dataDir and the absent descriptor are 0.
Nil == <<>>

\* Strings the code inspects are sequences of characters.
Str_cn == <<"c", "n">>
Str_dkr_ecr == <<".", "dkr", ".", "ecr", ".">>
Str_amazonaws_com == <<".", "amazonaws", ".", "com">>
Str_amazonaws_com_cn == <<".", "amazonaws", ".", "com", ".", "cn">>

RegionChars == {"c", "n", "u"}
SeqsUpTo(S, n) == UNION {[1..k -> S] : k \in 0..n}
AllRegions == SeqsUpTo(RegionChars, MaxRegionLen)
AllAccounts == {<<>>, <<"1">>, <<"c", "n">>}

\* the inputs of a pipeline run
Repos == {"repoA", "repoB"}
ImageDigests == {"sha256:img"}
Regions == {<<"c", "n">>}
Accounts == {<<"1">>}

artifactsStoreName == "store"
artifactsDbName == "artifacts.db"

DirNames == 1..MaxDirs
\* a path that leaves out the directory it was given
PathJoin_ignoresDir(dir, name) == <<0, name>>

\* path.Join(dataDir, name)
PathJoin(dir, name) == <<dir, name>>
Children(dir) == {PathJoin(dir, artifactsStoreName),
                  PathJoin(dir, artifactsDbName)}

IndexDigests == 1..MaxDescs
Times == 1..MaxTime
IndexDescriptorInfo == [Descriptor : IndexDigests, CreatedAt : Times]
\* the database holds at most one record per index digest
RecordSets == {S \in SUBSET IndexDescriptorInfo :
                 \A a, b \in S : a.Descriptor = b.Descriptor => a = b}

\* an error value: the call that produced it and its cause
Error(step, cause) == <<step, cause>>
Errors(step, takesCtx) ==
    {Error(step, "fault")}
      \cup (IF takesCtx /\ ctxDone THEN {Error(step, "canceled")} ELSE {})

Count(s, x) == Cardinality({i \in 1..Len(s) : s[i] = x})
Called(x) == Count(trace, x) > 0
Pos(x) == CHOOSE i \in 1..Len(trace) : trace[i] = x
Record(x) == trace' = Append(trace, x)

(***************************************************************************)
(* Pure functions of main.go                                               *)
(***************************************************************************)
\* strings.HasPrefix
HasPrefix(s, prefix) ==
    Len(s) >= Len(prefix) /\ SubSeq(s, 1, Len(prefix)) = prefix

\* the suffix chosen by comparing the whole region instead of its prefix
awsDomain_wholeRegion(r) ==
    IF r = Str_cn THEN Str_amazonaws_com_cn ELSE Str_amazonaws_com

awsDomain(r) ==
    IF HasPrefix(r, Str_cn) THEN Str_amazonaws_com_cn ELSE Str_amazonaws_com

buildEcrRegistryUrl(r, a) == a \o Str_dkr_ecr \o r \o awsDomain(r)

\* the less function given to sort.Slice
Less(s, i, j) == s[i].CreatedAt < s[j].CreatedAt

\* sort.Slice is not stable: any arrangement of the elements in which no
\* element is less than one before it can be the result
Arrangements(S) ==
    {s \in [1..Cardinality(S) -> S] : \A i, j \in DOMAIN s : i # j => s[i] # s[j]}
SortSlice(S) ==
    {s \in Arrangements(S) : \A i, j \in DOMAIN s : i < j => ~Less(s, j, i)}

\* lambdaError losing the error it was given
lambdaError_dropsErr(msg, err) == <<msg, Nil>>

\* lambdaError wrapping the error in a new one that carries the message
lambdaError_wraps(msg, err) == <<msg, <<msg, err>>>>

\* Log and return the lambda handler error
lambdaError(msg, err) == <<msg, err>>

\* a directory of a fixed name, made whether or not it is already there
MkdirTemp_fixedName(files) == {1}

\* os.MkdirTemp("/tmp", ...): the names it can return, none of them taken
MkdirTemp(files) == {d \in DirNames : <<d>> \notin files}

\* os.RemoveAll(dir) succeeded
RemoveAll(files, dir) ==
    {p \in files : p # <<dir>> /\ ~(Len(p) = 2 /\ p[1] = dir)}
\* os.RemoveAll reporting an error also for a path that does not exist, as
\* os.Remove does
RemoveAllFailed_missingIsError(files, dir) ==
    {files \ gone : gone \in SUBSET (files \cap Children(dir))}

\* os.RemoveAll(dir) failed: the directory is still there, with some of its
\* entries.  For a path that does not exist os.RemoveAll returns nil.
RemoveAllFailed(files, dir) ==
    IF <<dir>> \in files
    THEN {files \ gone : gone \in SUBSET (files \cap Children(dir))}
    ELSE {}

(***************************************************************************)
(* Initial state                                                           *)
(***************************************************************************)
\* nothing of process has run
FreshLocals ==
    /\ osArgs = <<>>
    /\ exitCode = -1
    /\ stdout = <<>>
    /\ panicked = FALSE
    /\ ctxDone = FALSE
    /\ registryUrl = <<>>
    /\ registry = <<>>
    /\ dataDir = 0
    /\ deferred = FALSE
    /\ sociStore = Nil
    /\ artifactsDb = Nil
    /\ containerdStore = Nil
    /\ builder = FALSE
    /\ image = Nil
    /\ dbRecords = {}
    /\ indexDescriptorInfos = <<>>
    /\ indexDescriptor = 0
    /\ pushed = Nil
    /\ retMsg = "" /\ retErr = Nil
    /\ stepErr = Nil
    /\ cleanUpErr = FALSE
    /\ trace = <<>>

\* the state of one invocation before main or process has run
FreshInvocation ==
    /\ pc = "idle"
    /\ caller = "none"
    /\ repo = "" /\ digest = "" /\ region = <<>> /\ account = <<>>
    /\ ctxCancellable = FALSE
    /\ FreshLocals

\* the workspace of another invocation that shares /tmp
Workspace(d) == {<<d>>} \cup Children(d)

\* /tmp when the program starts: workspaces of other invocations can be
\* there; os.MkdirTemp always finds a name that is not taken
InitialTmp ==
    {UNION {Workspace(d) : d \in D} : D \in (SUBSET DirNames) \ {DirNames}}

Init ==
    /\ FreshInvocation
    /\ fs \in InitialTmp
    /\ others = fs

(***************************************************************************)
(* main                                                                    *)
(***************************************************************************)
\* the command line: the program name followed by n arguments
Argv(n, r, d, g, a) ==
    <<"soci-wrapper">> \o
    [i \in 1..n |-> CASE i = 1 -> r [] i = 2 -> d [] i = 3 -> g [] i = 4 -> a
                      [] OTHER -> "extra"]

\* if len(os.Args) < 4
UsageError(argv) == Len(argv) < 4

\* os.Args[k] is in range
InRange(argv, k) == k + 1 <= Len(argv)

UsageLine == "Usage: soci-wrapper REPOSITORY_NAME IMAGE_DIGEST AWS_REGION AWS_ACCOUNT"

\* main up to its call of process
main ==
    /\ pc = "idle"
    /\ \E n \in 0..MaxArgs, r \in Repos, d \in ImageDigests, g \in Regions,
          a \in Accounts :
         LET argv == Argv(n, r, d, g, a) IN
         /\ osArgs' = argv
         /\ IF UsageError(argv)
            THEN \* fmt.Println(usage); os.Exit(1)
                 /\ stdout' = Append(stdout, UsageLine)
                 /\ exitCode' = 1
                 /\ pc' = "exited"
                 /\ UNCHANGED <<caller, panicked, repo, digest, region, account>>
            ELSE IF ~(\A k \in 1..4 : InRange(argv, k))
            THEN \* index out of range: the runtime panics and exits with 2
                 /\ panicked' = TRUE
                 /\ exitCode' = 2
                 /\ pc' = "exited"
                 /\ UNCHANGED <<caller, stdout, repo, digest, region, account>>
            ELSE \* process(context.TODO(), repo, digest, region, account)
                 /\ repo' = argv[2] /\ digest' = argv[3]
                 /\ region' = argv[4] /\ account' = argv[5]
                 /\ caller' = "main"
                 /\ pc' = "process"
                 /\ UNCHANGED <<stdout, exitCode, panicked>>
    /\ UNCHANGED <<others, ctxCancellable, ctxDone, registryUrl, registry, dataDir,
                   deferred, fs, sociStore, artifactsDb, containerdStore,
                   builder, image, dbRecords, indexDescriptorInfos,
                   indexDescriptor, pushed, retMsg, retErr, stepErr,
                   cleanUpErr, trace>>

\* an exit status that tells a failed run from the others
ExitStatus_fromErr(msg, err) == IF err # Nil THEN 1 ELSE 0

\* main returns after process: the program exits with status 0
ExitStatus(msg, err) == 0

\* main after process has returned: both results are discarded
mainReturn ==
    /\ pc = "returned"
    /\ caller = "main"
    /\ exitCode' = ExitStatus(retMsg, retErr)
    /\ pc' = "exited"
    /\ UNCHANGED <<others, caller, osArgs, stdout, panicked, repo, digest, region,
                   account, ctxCancellable, ctxDone, registryUrl, registry,
                   dataDir, deferred, fs, sociStore, artifactsDb,
                   containerdStore, builder, image, dbRecords,
                   indexDescriptorInfos, indexDescriptor, pushed, retMsg,
                   retErr, stepErr, cleanUpErr, trace>>

(***************************************************************************)
(* process                                                                 *)
(***************************************************************************)
\* process called with a context the caller can cancel
processCall ==
    /\ pc = "idle"
    /\ \E r \in Repos, d \in ImageDigests, g \in Regions, a \in Accounts :
         /\ repo' = r /\ digest' = d /\ region' = g /\ account' = a
    /\ ctxCancellable' = TRUE
    /\ caller' = "direct"
    /\ pc' = "process"
    /\ UNCHANGED <<others, osArgs, exitCode, stdout, panicked, ctxDone, registryUrl,
                   registry, dataDir, deferred, fs, sociStore, artifactsDb,
                   containerdStore, builder, image, dbRecords,
                   indexDescriptorInfos, indexDescriptor, pushed, retMsg,
                   retErr, stepErr, cleanUpErr, trace>>

Running ==
    pc \in {"process", "registryInit", "ValidateImageManifest", "createTempDir",
            "initSociStore", "Pull", "initSociArtifactsDb",
            "initContainerdStore", "NewIndexBuilder", "Build", "selectIndex",
            "Push", "cleanUp"}

\* the caller cancels the context while process runs
ctxCancel ==
    /\ Running
    /\ ctxCancellable
    /\ ~ctxDone
    /\ ctxDone' = TRUE
    /\ UNCHANGED <<others, pc, caller, osArgs, exitCode, stdout, panicked, repo, digest,
                   region, account, ctxCancellable, registryUrl, registry,
                   dataDir, deferred, fs, sociStore, artifactsDb,
                   containerdStore, builder, image, dbRecords,
                   indexDescriptorInfos, indexDescriptor, pushed, retMsg,
                   retErr, stepErr, cleanUpErr, trace>>

\* a return that leaves without running the deferred call
Return_withoutDefer(result) ==
    /\ retMsg' = result[1]
    /\ retErr' = result[2]
    /\ pc' = "returned"

\* a return statement of process: the results are fixed, then the deferred
\* cleanUp (if registered) runs before control goes back to the caller
Return(result) ==
    /\ retMsg' = result[1]
    /\ retErr' = result[2]
    /\ pc' = IF deferred THEN "cleanUp" ELSE "returned"

(***************************************************************************)
(* The return statements of process.  stepErr keeps the error value the    *)
(* failing call produced.                                                  *)
(***************************************************************************)
MsgRegistryInit == "Remote registry initialization error"
MsgEarlyExit == "Exited early due to manifest validation error"
MsgDirCreate == "Directory create error"
MsgStoreInit == "OCI storage initialization error"
MsgPull == "Image pull error"
MsgBuild == "SOCI index build error"
MsgPush == "SOCI index push error"
MsgSuccess == "Successfully built and pushed SOCI index"

\* the registry error not checked: process goes on to the validation
registryInitFailure_ignored(e) ==
    /\ stepErr' = e
    /\ pc' = "ValidateImageManifest"
    /\ UNCHANGED <<retMsg, retErr>>

\* return lambdaError(ctx, "Remote registry initialization error", err)
registryInitFailure(e) ==
    /\ stepErr' = e
    /\ Return(lambdaError(MsgRegistryInit, e))

\* the validation error returned like every other error
validationFailure_asError(e) ==
    /\ stepErr' = e
    /\ Return(lambdaError(MsgEarlyExit, e))

\* Returning a non error to skip retries
validationFailure(e) ==
    /\ stepErr' = e
    /\ Return(<<MsgEarlyExit, Nil>>)

\* return lambdaError(ctx, "Directory create error", err)
createTempDirFailure(e) ==
    /\ stepErr' = e
    /\ Return(lambdaError(MsgDirCreate, e))

\* the store error not checked: process goes on to the pull
sociStoreFailure_ignored(e) ==
    /\ stepErr' = e
    /\ pc' = "Pull"
    /\ UNCHANGED <<retMsg, retErr>>

\* return lambdaError(ctx, "OCI storage initialization error", err)
sociStoreFailure(e) ==
    /\ stepErr' = e
    /\ Return(lambdaError(MsgStoreInit, e))

\* the pull error not checked: process goes on to buildIndex
pullFailure_ignored(e) ==
    /\ stepErr' = e
    /\ pc' = "initSociArtifactsDb"
    /\ UNCHANGED <<retMsg, retErr>>

\* return lambdaError(ctx, "Image pull error", err)
pullFailure(e) ==
    /\ stepErr' = e
    /\ Return(lambdaError(MsgPull, e))

\* a failed push tried a second time
pushFailure_retry(e) ==
    /\ stepErr' = e
    /\ IF Count(trace, "Push") = 0
       THEN pc' = "Push" /\ UNCHANGED <<retMsg, retErr>>
       ELSE Return(lambdaError(MsgPush, e))

\* return lambdaError(ctx, "SOCI index push error", err)
pushFailure(e) ==
    /\ stepErr' = e
    /\ Return(lambdaError(MsgPush, e))

\* return "Successfully built and pushed SOCI index", nil
pushSuccess ==
    /\ UNCHANGED stepErr
    /\ Return(<<MsgSuccess, Nil>>)

Frame == UNCHANGED <<others, caller, osArgs, exitCode, stdout, panicked, repo, digest,
                     region, account, ctxCancellable, ctxDone>>

\* registryUrl := buildEcrRegistryUrl(region, account)
processEnter ==
    /\ pc = "process"
    /\ registryUrl' = buildEcrRegistryUrl(region, account)
    /\ pc' = "registryInit"
    /\ Frame
    /\ UNCHANGED <<registry, dataDir, deferred, fs, sociStore, artifactsDb,
                   containerdStore, builder, image, dbRecords,
                   indexDescriptorInfos, indexDescriptor, pushed, retMsg,
                   retErr, stepErr, cleanUpErr, trace>>

\* registry, err := registryutils.Init(ctx, registryUrl)
registryInit ==
    /\ pc = "registryInit"
    /\ Record("Init")
    /\ \/ /\ registry' = registryUrl
          /\ pc' = "ValidateImageManifest"
          /\ UNCHANGED <<retMsg, retErr, stepErr>>
       \/ \E e \in Errors("Init", TRUE) :
            /\ registryInitFailure(e)
            /\ UNCHANGED registry
    /\ Frame
    /\ UNCHANGED <<registryUrl, dataDir, deferred, fs, sociStore, artifactsDb,
                   containerdStore, builder, image, dbRecords,
                   indexDescriptorInfos, indexDescriptor, pushed, cleanUpErr>>

\* err = registry.ValidateImageManifest(ctx, repo, digest)
ValidateImageManifest ==
    /\ pc = "ValidateImageManifest"
    /\ Record("ValidateImageManifest")
    /\ \/ /\ pc' = "createTempDir"
          /\ UNCHANGED <<retMsg, retErr, stepErr>>
       \/ \E e \in Errors("ValidateImageManifest", TRUE) :
            validationFailure(e)
    /\ Frame
    /\ UNCHANGED <<registryUrl, registry, dataDir, deferred, fs, sociStore,
                   artifactsDb, containerdStore, builder, image, dbRecords,
                   indexDescriptorInfos, indexDescriptor, pushed, cleanUpErr>>

\* dataDir, err := createTempDir(ctx); defer cleanUp(ctx, dataDir)
createTempDir ==
    /\ pc = "createTempDir"
    /\ Record("MkdirTemp")
    /\ \/ \E d \in MkdirTemp(fs) :
            \* os.MkdirTemp creates a directory that did not exist
            /\ fs' = fs \cup {<<d>>}
            /\ dataDir' = d
            /\ deferred' = TRUE
            /\ pc' = "initSociStore"
            /\ UNCHANGED <<retMsg, retErr, stepErr>>
       \/ \E e \in Errors("MkdirTemp", FALSE) :
            /\ createTempDirFailure(e)
            /\ UNCHANGED <<fs, dataDir, deferred>>
    /\ Frame
    /\ UNCHANGED <<registryUrl, registry, sociStore, artifactsDb,
                   containerdStore, builder, image, dbRecords,
                   indexDescriptorInfos, indexDescriptor, pushed, cleanUpErr>>

\* sociStore, err := initSociStore(ctx, dataDir)
initSociStore ==
    /\ pc = "initSociStore"
    /\ Record("initSociStore")
    /\ \/ /\ sociStore' = PathJoin(dataDir, artifactsStoreName)
          /\ fs' = fs \cup {PathJoin(dataDir, artifactsStoreName)}
          /\ pc' = "Pull"
          /\ UNCHANGED <<retMsg, retErr, stepErr>>
       \/ \E e \in Errors("initSociStore", TRUE) :
            /\ sociStoreFailure(e)
            /\ UNCHANGED <<sociStore, fs>>
    /\ Frame
    /\ UNCHANGED <<registryUrl, registry, dataDir, deferred, artifactsDb,
                   containerdStore, builder, image, dbRecords,
                   indexDescriptorInfos, indexDescriptor, pushed, cleanUpErr>>

\* desc, err := registry.Pull(ctx, repo, sociStore, digest); image := ...
Pull ==
    /\ pc = "Pull"
    /\ Record("Pull")
    /\ \/ /\ image' = <<repo, "@", digest>>
          /\ pc' = "initSociArtifactsDb"
          /\ UNCHANGED <<retMsg, retErr, stepErr>>
       \/ \E e \in Errors("Pull", TRUE) :
            /\ pullFailure(e)
            /\ UNCHANGED image
    /\ Frame
    /\ UNCHANGED <<registryUrl, registry, dataDir, deferred, fs, sociStore,
                   artifactsDb, containerdStore, builder, dbRecords,
                   indexDescriptorInfos, indexDescriptor, pushed, cleanUpErr>>

(***************************************************************************)
(* buildIndex, called by process; an error it returns makes process return *)
(* lambdaError("SOCI index build error", err)                              *)
(***************************************************************************)
buildIndexError(e) ==
    /\ stepErr' = e
    /\ Return(lambdaError(MsgBuild, e))

\* artifactsDb, err := initSociArtifactsDb(dataDir)
initSociArtifactsDb ==
    /\ pc = "initSociArtifactsDb"
    /\ Record("initSociArtifactsDb")
    /\ \/ /\ artifactsDb' = PathJoin(dataDir, artifactsDbName)
          /\ fs' = fs \cup {PathJoin(dataDir, artifactsDbName)}
          /\ pc' = "initContainerdStore"
          /\ UNCHANGED <<retMsg, retErr, stepErr>>
       \/ \E e \in Errors("initSociArtifactsDb", FALSE) :
            /\ buildIndexError(e)
            /\ UNCHANGED <<artifactsDb, fs>>
    /\ Frame
    /\ UNCHANGED <<registryUrl, registry, dataDir, deferred, sociStore,
                   containerdStore, builder, image, dbRecords,
                   indexDescriptorInfos, indexDescriptor, pushed, cleanUpErr>>

\* containerdStore, err := initContainerdStore(dataDir)
initContainerdStore ==
    /\ pc = "initContainerdStore"
    /\ Record("initContainerdStore")
    /\ \/ /\ containerdStore' = PathJoin(dataDir, artifactsStoreName)
          /\ fs' = fs \cup {PathJoin(dataDir, artifactsStoreName)}
          /\ pc' = "NewIndexBuilder"
          /\ UNCHANGED <<retMsg, retErr, stepErr>>
       \/ \E e \in Errors("initContainerdStore", FALSE) :
            /\ buildIndexError(e)
            /\ UNCHANGED <<containerdStore, fs>>
    /\ Frame
    /\ UNCHANGED <<registryUrl, registry, dataDir, deferred, sociStore,
                   artifactsDb, builder, image, dbRecords,
                   indexDescriptorInfos, indexDescriptor, pushed, cleanUpErr>>

\* builder, err := soci.NewIndexBuilder(containerdStore, sociStore, artifactsDb, ...)
NewIndexBuilder ==
    /\ pc = "NewIndexBuilder"
    /\ Record("NewIndexBuilder")
    /\ \/ /\ builder' = TRUE
          /\ pc' = "Build"
          /\ UNCHANGED <<retMsg, retErr, stepErr>>
       \/ \E e \in Errors("NewIndexBuilder", FALSE) :
            /\ buildIndexError(e)
            /\ UNCHANGED builder
    /\ Frame
    /\ UNCHANGED <<registryUrl, registry, dataDir, deferred, fs, sociStore,
                   artifactsDb, containerdStore, image, dbRecords,
                   indexDescriptorInfos, indexDescriptor, pushed, cleanUpErr>>

\* _, err = builder.Build(ctx, image): the builder records the indices it
\* made in the metadata database
Build ==
    /\ pc = "Build"
    /\ Record("Build")
    /\ \/ \E S \in RecordSets :
            /\ dbRecords' = S
            /\ pc' = "selectIndex"
            /\ UNCHANGED <<retMsg, retErr, stepErr>>
       \/ \E e \in Errors("Build", TRUE) :
            /\ buildIndexError(e)
            /\ UNCHANGED dbRecords
    /\ Frame
    /\ UNCHANGED <<registryUrl, registry, dataDir, deferred, fs, sociStore,
                   artifactsDb, containerdStore, builder, image,
                   indexDescriptorInfos, indexDescriptor, pushed, cleanUpErr>>

\* errors.New("No SOCI indices found in OCI store")
ErrNoIndices == Error("buildIndex", "No SOCI indices found in OCI store")

\* len(indexDescriptorInfos) == 0
NoneFound(infos) == Cardinality(infos) = 0

\* the first element of the sorted slice instead of the last
Selected_first(sorted) == sorted[1].Descriptor

\* &indexDescriptorInfos[len(indexDescriptorInfos)-1].Descriptor
Selected(sorted) == sorted[Len(sorted)].Descriptor

\* soci.GetIndexDescriptorCollection, the empty check, sort.Slice and the
\* return of buildIndex; then process reads indexDescriptor.Digest
selectIndex ==
    /\ pc = "selectIndex"
    /\ Record("GetIndexDescriptorCollection")
    /\ \/ /\ ~NoneFound(dbRecords)
          /\ \E sorted \in SortSlice(dbRecords) :
               /\ indexDescriptorInfos' = sorted
               /\ indexDescriptor' = Selected(sorted)
          /\ pc' = "Push"
          /\ UNCHANGED <<retMsg, retErr, stepErr>>
       \/ /\ NoneFound(dbRecords)
          /\ buildIndexError(ErrNoIndices)
          /\ UNCHANGED <<indexDescriptorInfos, indexDescriptor>>
       \/ \E e \in Errors("GetIndexDescriptorCollection", TRUE) :
            /\ buildIndexError(e)
            /\ UNCHANGED <<indexDescriptorInfos, indexDescriptor>>
    /\ Frame
    /\ UNCHANGED <<registryUrl, registry, dataDir, deferred, fs, sociStore,
                   artifactsDb, containerdStore, builder, image, dbRecords,
                   pushed, cleanUpErr>>

\* the first listed descriptor pushed instead of the one buildIndex returned
PushArgs_firstListed == <<indexDescriptorInfos[1].Descriptor, repo>>

\* the descriptor and the repository given to registry.Push
PushArgs == <<indexDescriptor, repo>>

\* err = registry.Push(ctx, sociStore, *indexDescriptor, repo)
Push ==
    /\ pc = "Push"
    /\ Record("Push")
    /\ pushed' = PushArgs
    /\ \/ pushSuccess
       \/ \E e \in Errors("Push", TRUE) :
            pushFailure(e)
    /\ Frame
    /\ UNCHANGED <<registryUrl, registry, dataDir, deferred, fs, sociStore,
                   artifactsDb, containerdStore, builder, image, dbRecords,
                   indexDescriptorInfos, indexDescriptor, cleanUpErr>>

MsgCleanUp == "Clean up error"

\* the error of os.RemoveAll made the result of process
cleanUpFailure_escalates ==
    /\ cleanUpErr' = TRUE
    /\ retMsg' = MsgCleanUp
    /\ retErr' = Error("RemoveAll", "fault")

\* log.Error(ctx, "Clean up error", err)
cleanUpFailure ==
    /\ cleanUpErr' = TRUE
    /\ UNCHANGED <<retMsg, retErr>>

\* the deferred cleanUp(ctx, dataDir): os.RemoveAll, its error only logged
cleanUp ==
    /\ pc = "cleanUp"
    /\ Record("RemoveAll")
    /\ \/ /\ fs' = RemoveAll(fs, dataDir)
          /\ UNCHANGED <<cleanUpErr, retMsg, retErr>>
       \/ /\ fs' \in RemoveAllFailed(fs, dataDir)
          /\ cleanUpFailure
    /\ deferred' = FALSE
    /\ pc' = "returned"
    /\ Frame
    /\ UNCHANGED <<registryUrl, registry, dataDir, sociStore, artifactsDb,
                   containerdStore, builder, image, dbRecords,
                   indexDescriptorInfos, indexDescriptor, pushed, stepErr>>

(***************************************************************************)
(* Other invocations of the program that share /tmp.  They run the same    *)
(* createTempDir, store initialisations and cleanUp on workspaces of their *)
(* own; others holds the paths of those that are still live.               *)
(***************************************************************************)
ownVars == <<pc, caller, osArgs, exitCode, stdout, panicked, repo, digest,
             region, account, ctxCancellable, ctxDone, registryUrl, registry,
             dataDir, deferred, sociStore, artifactsDb, containerdStore,
             builder, image, dbRecords, indexDescriptorInfos, indexDescriptor,
             pushed, retMsg, retErr, stepErr, cleanUpErr, trace>>

\* createTempDir of another invocation
otherCreateTempDir ==
    /\ \E d \in MkdirTemp(fs) :
         /\ fs' = fs \cup {<<d>>}
         /\ others' = others \cup {<<d>>}
    /\ UNCHANGED ownVars

\* initSociStore, initContainerdStore or initSociArtifactsDb of another
\* invocation
otherInitStore ==
    /\ \E d \in DirNames, name \in {artifactsStoreName, artifactsDbName} :
         /\ <<d>> \in others
         /\ PathJoin(d, name) \notin others
         /\ fs' = fs \cup {PathJoin(d, name)}
         /\ others' = others \cup {PathJoin(d, name)}
    /\ UNCHANGED ownVars

\* the deferred cleanUp of another invocation
otherCleanUp ==
    /\ \E d \in DirNames :
         /\ <<d>> \in others
         /\ \/ fs' = RemoveAll(fs, d)
            \/ fs' \in RemoveAllFailed(fs, d)
         /\ others' = RemoveAll(others, d)
    /\ UNCHANGED ownVars

\* process is about to run on a region and an account of any shape
InitUrl ==
    /\ pc = "process"
    /\ caller = "direct"
    /\ repo \in Repos /\ digest \in ImageDigests
    /\ region \in AllRegions /\ account \in AllAccounts
    /\ ctxCancellable = TRUE
    /\ FreshLocals
    /\ fs = {}
    /\ others = {}

NextUrl ==
    \/ processEnter
    \/ registryInit

SpecUrl == InitUrl /\ [][NextUrl]_vars

Next ==
    \/ main
    \/ mainReturn
    \/ processCall
    \/ ctxCancel
    \/ processEnter
    \/ registryInit
    \/ ValidateImageManifest
    \/ createTempDir
    \/ initSociStore
    \/ Pull
    \/ initSociArtifactsDb
    \/ initContainerdStore
    \/ NewIndexBuilder
    \/ Build
    \/ selectIndex
    \/ Push
    \/ cleanUp

Spec == Init /\ [][Next]_vars

\* process is about to run, as main calls it, while other invocations share
\* /tmp
InitProcess ==
    /\ pc = "process"
    /\ caller = "direct"
    /\ repo = "repoA" /\ digest \in ImageDigests
    /\ region \in Regions /\ account \in Accounts
    /\ ctxCancellable = FALSE
    /\ FreshLocals
    /\ fs \in InitialTmp
    /\ others = fs

\* the steps of process interleaved with the steps of the others
NextConc ==
    \/ processEnter
    \/ registryInit
    \/ ValidateImageManifest
    \/ createTempDir
    \/ initSociStore
    \/ Pull
    \/ initSociArtifactsDb
    \/ initContainerdStore
    \/ NewIndexBuilder
    \/ Build
    \/ selectIndex
    \/ Push
    \/ cleanUp
    \/ otherCreateTempDir
    \/ otherInitStore
    \/ otherCleanUp

SpecConc == InitProcess /\ [][NextConc]_vars

(***************************************************************************)
(* cleanUp called again on the workspace of a process that has returned.   *)
(***************************************************************************)
MaxCleanUps == 2

\* one more call of cleanUp(dataDir)
cleanUpAgain ==
    /\ pc = "returned"
    /\ dataDir # 0
    /\ Count(trace, "RemoveAll") < MaxCleanUps
    /\ pc' = "cleanUp"
    /\ UNCHANGED <<caller, osArgs, exitCode, stdout, panicked, repo, digest,
                   region, account, ctxCancellable, ctxDone, registryUrl,
                   registry, dataDir, deferred, fs, others, sociStore,
                   artifactsDb, containerdStore, builder, image, dbRecords,
                   indexDescriptorInfos, indexDescriptor, pushed, retMsg,
                   retErr, stepErr, cleanUpErr, trace>>

NextCleanUp ==
    \/ processEnter
    \/ registryInit
    \/ ValidateImageManifest
    \/ createTempDir
    \/ initSociStore
    \/ Pull
    \/ initSociArtifactsDb
    \/ initContainerdStore
    \/ NewIndexBuilder
    \/ Build
    \/ selectIndex
    \/ Push
    \/ cleanUp
    \/ cleanUpAgain

SpecCleanUp == InitProcess /\ [][NextCleanUp]_vars

(***************************************************************************)
(* Properties                                                              *)
(***************************************************************************)
\* process has returned to its caller
ProcessReturned == pc = "returned" \/ (pc = "exited" /\ caller = "main")

\* the call named step returned an error
FailedAt(step) == stepErr # Nil /\ stepErr[1] = step

\* call a was attempted before call b
Before(a, b) == Called(a) /\ Called(b) /\ Pos(a) < Pos(b)

FailureMsgs == {MsgRegistryInit, MsgDirCreate, MsgStoreInit, MsgPull, MsgBuild,
                MsgPush}

FaultMsg(step) ==
    CASE step = "Init" -> MsgRegistryInit
      [] step = "MkdirTemp" -> MsgDirCreate
      [] step = "initSociStore" -> MsgStoreInit
      [] step = "Pull" -> MsgPull
      [] step = "Push" -> MsgPush
      [] OTHER -> MsgBuild

\* C1: whenever manifest validation returned an error, process returns the
\* early-exit message with a nil error, never a non-nil error.
C1_ValidationSkipIsNotAnError ==
    (ProcessReturned /\ FailedAt("ValidateImageManifest"))
        => (retErr = Nil /\ retMsg = MsgEarlyExit)

C1_Witness ==
    /\ ProcessReturned
    /\ FailedAt("ValidateImageManifest")
    /\ stepErr[2] = "canceled"

\* C2 as claimed: once process has returned, a workspace it provisioned does
\* not exist any more.
C2_WorkspaceGoneAfterReturn ==
    (ProcessReturned /\ dataDir # 0) => <<dataDir>> \notin fs

\* C2 amended: once process has returned after provisioning a workspace,
\* cleanUp has run exactly once, and the workspace and everything under it
\* are gone unless os.RemoveAll itself failed.
C2_TeardownAlwaysRuns ==
    (ProcessReturned /\ dataDir # 0)
        => /\ Count(trace, "RemoveAll") = 1
           /\ ~deferred
           /\ ~cleanUpErr => (fs \cap ({<<dataDir>>} \cup Children(dataDir)) = {})

C2_Witness ==
    /\ ProcessReturned
    /\ FailedAt("Push")
    /\ ~cleanUpErr
    /\ <<dataDir>> \notin fs

\* C3: process ends in exactly one of three outcomes: the success message
\* with a nil error, only when the push succeeded; the early-exit message
\* with a nil error, only when validation failed; a failure message with a
\* non-nil error for every other fault.  The error is nil exactly in the
\* first two.
C3_ThreeOutcomes ==
    ProcessReturned
        => /\ retMsg \in {MsgSuccess, MsgEarlyExit} \cup FailureMsgs
           /\ (retErr = Nil) <=> (retMsg \in {MsgSuccess, MsgEarlyExit})
           /\ (retMsg = MsgSuccess) <=> (Called("Push") /\ stepErr = Nil)
           /\ (retMsg = MsgEarlyExit) <=> FailedAt("ValidateImageManifest")
           /\ (stepErr # Nil /\ ~FailedAt("ValidateImageManifest"))
                 => (retErr # Nil /\ retMsg = FaultMsg(stepErr[1]))

C3_Witness ==
    /\ ProcessReturned
    /\ stepErr = ErrNoIndices
    /\ retErr # Nil

\* the listing of the recorded descriptors succeeded
Listed ==
    Called("GetIndexDescriptorCollection")
        /\ ~FailedAt("GetIndexDescriptorCollection")

DistinctTimes(S) == \A a, b \in S : a # b => a.CreatedAt # b.CreatedAt

IsLatest(r, S) == r \in S /\ \A q \in S : q.CreatedAt <= r.CreatedAt

\* C4: of descriptors with pairwise distinct timestamps buildIndex returns
\* the one with the greatest timestamp; of a single descriptor, that one;
\* of none, an error and no descriptor, and the run is not a success.
C4_SelectsLatest ==
    Listed
        => /\ (dbRecords # {} /\ DistinctTimes(dbRecords))
                 => \E r \in dbRecords :
                       IsLatest(r, dbRecords) /\ indexDescriptor = r.Descriptor
           /\ \A r \in dbRecords :
                 dbRecords = {r} => indexDescriptor = r.Descriptor
           /\ dbRecords = {}
                 => /\ indexDescriptor = 0
                    /\ retErr = ErrNoIndices
                    /\ retMsg = MsgBuild
                    /\ ~Called("Push")

C4_Witness ==
    /\ Listed
    /\ Cardinality(dbRecords) >= 2
    /\ DistinctTimes(dbRecords)
    /\ indexDescriptor # 0

\* the command-line arguments given to the program
NumArgs == Len(osArgs) - 1

\* C5: started with fewer than 4 arguments the program exits with a
\* non-zero status, prints the usage line and never enters process.
C5_FewArgsPrintUsage ==
    (pc = "exited" /\ osArgs # <<>> /\ NumArgs < 4)
        => /\ exitCode > 0
           /\ stdout = <<UsageLine>>
           /\ caller = "none"
           /\ trace = <<>>

\* C6: when the pull or the build returns an error because the context was
\* cancelled, process returns a non-nil error, no push is attempted, and
\* cleanUp has run before process returns.
C6_CancelledRunFailsAndCleansUp ==
    (ProcessReturned
       /\ stepErr \in {Error("Pull", "canceled"), Error("Build", "canceled")})
        => /\ retErr # Nil
           /\ retMsg \in FailureMsgs
           /\ ~Called("Push")
           /\ pushed = Nil
           /\ Count(trace, "RemoveAll") = 1

C6_Witness ==
    /\ ProcessReturned
    /\ ctxDone
    /\ stepErr = Error("Build", "canceled")

ExternalCalls == {"ValidateImageManifest", "Pull", "Build",
                  "GetIndexDescriptorCollection", "Push"}

\* C7: no external call is attempted more than once in one invocation, and
\* a run that ends in success has attempted each exactly once.
C7_NoRetries ==
    /\ \A i, j \in 1..Len(trace) : trace[i] = trace[j] => i = j
    /\ (ProcessReturned /\ retMsg = MsgSuccess)
          => \A c \in ExternalCalls : Count(trace, c) = 1

C7_Witness ==
    /\ ProcessReturned
    /\ retMsg = MsgSuccess
    /\ Len(trace) > Cardinality(ExternalCalls)

\* the region begins with the two characters c, n
StartsWithCn(r) == \E rest \in AllRegions : r = <<"c", "n">> \o rest

\* C8: the registry URL is account, ".dkr.ecr.", region and a suffix, the
\* suffix being ".amazonaws.com.cn" exactly when the region starts with "cn"
\* and ".amazonaws.com" otherwise.
C8_RegistryUrl ==
    pc # "process"
        => /\ StartsWithCn(region)
                => registryUrl = account \o Str_dkr_ecr \o region
                                   \o Str_amazonaws_com_cn
           /\ ~StartsWithCn(region)
                => registryUrl = account \o Str_dkr_ecr \o region
                                   \o Str_amazonaws_com

C8_Witness ==
    /\ pc # "process"
    /\ Len(region) > Len(Str_cn)
    /\ StartsWithCn(region)
    /\ registryUrl[Len(registryUrl)] = "cn"

\* C10 as claimed: whenever the pull is attempted, the content store, the
\* artifact store and the metadata database have been initialised, in that
\* order.
C10_AllStoresBeforePull ==
    Called("Pull")
        => /\ Before("initContainerdStore", "initSociStore")
           /\ Before("initSociStore", "initSociArtifactsDb")
           /\ Before("initSociArtifactsDb", "Pull")

\* C10 amended: only the artifact store is initialised between provisioning
\* and the pull; the metadata database and then the content store are
\* initialised after the pull has succeeded and before the build.  A failed
\* artifact store ends the run before any pull, a failed database or content
\* store before any build.
C10_StoreInitOrder ==
    /\ Called("Pull")
          => /\ Before("MkdirTemp", "initSociStore")
             /\ Before("initSociStore", "Pull")
             /\ sociStore = PathJoin(dataDir, artifactsStoreName)
    /\ Called("initSociArtifactsDb")
          => Before("Pull", "initSociArtifactsDb") /\ image # Nil
    /\ Called("initContainerdStore")
          => /\ Before("initSociArtifactsDb", "initContainerdStore")
             /\ artifactsDb # Nil
    /\ Called("Build")
          => /\ Before("initContainerdStore", "Build")
             /\ containerdStore # Nil
    /\ sociStore = Nil => ~Called("Pull")
    /\ (artifactsDb = Nil \/ containerdStore = Nil) => ~Called("Build")

C10_Witness ==
    /\ Called("Build")
    /\ Before("Pull", "initSociArtifactsDb")
    /\ Before("initSociArtifactsDb", "initContainerdStore")

PipelineSteps == <<"ValidateImageManifest", "MkdirTemp", "Pull", "Build",
                   "GetIndexDescriptorCollection", "Push">>

IsPipelineStep(x) == \E i \in 1..Len(PipelineSteps) : PipelineSteps[i] = x

\* the pipeline steps attempted so far, in the order of their attempts
StepsTaken == SelectSeq(trace, IsPipelineStep)

\* C11: validate, provision, pull, build, select and push are attempted in
\* that order and none twice; the pull only after a successful validation
\* and with the workspace in place, the build only after a successful pull,
\* the push only after a descriptor was selected; what is pushed is the
\* selected descriptor, under the repository name process was given.
C11_StrictStepOrder ==
    /\ StepsTaken = SubSeq(PipelineSteps, 1, Len(StepsTaken))
    /\ pc = "Pull" => (<<dataDir>> \in fs /\ ~FailedAt("ValidateImageManifest"))
    /\ Called("Pull") => (dataDir # 0 /\ sociStore # Nil)
    /\ Called("Build") => (image = <<repo, "@", digest>> /\ ~FailedAt("Pull"))
    /\ Called("Push")
          => /\ ~FailedAt("Build")
             /\ Listed
             /\ \E r \in dbRecords : r.Descriptor = indexDescriptor
             /\ indexDescriptor = indexDescriptorInfos[Len(indexDescriptorInfos)].Descriptor
             /\ pushed = <<indexDescriptor, repo>>
             /\ caller = "main" => repo = osArgs[2]
    /\ ~Called("Push") => pushed = Nil

C11_Witness ==
    /\ ProcessReturned
    /\ caller = "main"
    /\ Len(StepsTaken) = Len(PipelineSteps)
    /\ Cardinality(dbRecords) > 1
    /\ pushed = <<indexDescriptor, "repoB">>

\* C12: a failure of os.RemoveAll in cleanUp changes neither the message nor
\* the error process returns: a successful run stays (success, nil) and a
\* failed run keeps the message and the error of the call that failed.
C12_CleanUpFailureOnlyLogged ==
    (ProcessReturned /\ cleanUpErr)
        => IF stepErr = Nil
           THEN retMsg = MsgSuccess /\ retErr = Nil
           ELSE retMsg = FaultMsg(stepErr[1]) /\ retErr = stepErr

C12_Witness ==
    /\ ProcessReturned
    /\ cleanUpErr
    /\ <<dataDir>> \in fs
    /\ retMsg = MsgSuccess

\* two or more listed descriptors share the greatest timestamp
TieForLatest ==
    \E a, b \in dbRecords :
        a # b /\ IsLatest(a, dbRecords) /\ IsLatest(b, dbRecords)

\* C13: when two or more listed descriptors share the greatest timestamp,
\* none of them is pushed and the run does not end in success.
C13_TieIsNotPublished ==
    (Listed /\ TieForLatest)
        => /\ ~Called("Push")
           /\ pushed = Nil
           /\ ProcessReturned => (retErr # Nil /\ retMsg # MsgSuccess)

\* C15: a non-nil error returned by process is the error value the failing
\* call produced, and an error of any call but the validation is returned.
C15_ErrorReturnedVerbatim ==
    ProcessReturned
        => /\ retErr # Nil => retErr = stepErr
           /\ (stepErr # Nil /\ ~FailedAt("ValidateImageManifest"))
                 => retErr = stepErr

C15_Witness ==
    /\ ProcessReturned
    /\ cleanUpErr
    /\ retErr = Error("Push", "canceled")

\* the paths of this invocation's workspace that exist
OwnPaths == fs \cap ({<<dataDir>>} \cup {<<dataDir, "store">>,
                                        <<dataDir, "artifacts.db">>})

\* C16: the content store and the artifact store are rooted at
\* <workspace>/store and the metadata database at <workspace>/artifacts.db
\* of this invocation's own workspace, and none of them exists once the
\* workspace directory has been removed.
C16_StoresUnderOwnWorkspace ==
    /\ sociStore # Nil => (dataDir # 0 /\ sociStore = <<dataDir, "store">>)
    /\ containerdStore # Nil
          => (dataDir # 0 /\ containerdStore = <<dataDir, "store">>)
    /\ artifactsDb # Nil
          => (dataDir # 0 /\ artifactsDb = <<dataDir, "artifacts.db">>)
    /\ fs \subseteq others \cup OwnPaths
    /\ (dataDir # 0 /\ <<dataDir>> \notin fs) => OwnPaths = {}
    /\ (ProcessReturned /\ dataDir # 0 /\ ~cleanUpErr) => OwnPaths = {}

C16_Witness ==
    /\ ProcessReturned
    /\ artifactsDb # Nil
    /\ containerdStore # Nil
    /\ ~cleanUpErr
    /\ OwnPaths = {}

\* C18: a run that ends before the workspace is provisioned leaves no
\* directory behind, performs no teardown and attempts no pull, build or
\* push; a failed registry initialisation is returned as an error and no
\* validation is attempted after it.
C18_EarlyEndTouchesNothing ==
    (ProcessReturned
       /\ (FailedAt("Init") \/ FailedAt("ValidateImageManifest")
             \/ FailedAt("MkdirTemp")))
        => /\ dataDir = 0
           /\ fs = others
           /\ \A c \in {"RemoveAll", "initSociStore", "Pull", "Build", "Push"} :
                 ~Called(c)
           /\ FailedAt("Init")
                 => /\ retErr # Nil
                    /\ retMsg = MsgRegistryInit
                    /\ ~Called("ValidateImageManifest")

C18_Witness ==
    /\ ProcessReturned
    /\ FailedAt("Init")
    /\ others # {}

\* C19: once main has called process, the exit status of the program is 0
\* whatever process returned: success, validation skip or failure.
C19_ExitStatusHidesFailure ==
    (pc = "exited" /\ caller = "main") => exitCode = 0

C19_Witness ==
    /\ pc = "exited"
    /\ caller = "main"
    /\ retErr # Nil
    /\ exitCode = 0

\* this invocation is between its provisioning and its teardown
Live == deferred

\* C14: with several invocations on the same /tmp, the workspace of a live
\* invocation is distinct from those of the other live invocations, and no
\* cleanUp removes anything of another live invocation's workspace: each
\* live workspace keeps every path its owner created.
C14_WorkspacesIsolated ==
    /\ others \subseteq fs
    /\ Live
          => /\ <<dataDir>> \in fs
             /\ <<dataDir>> \notin others
             /\ others \cap Children(dataDir) = {}
             /\ sociStore # Nil => sociStore \in fs
             /\ artifactsDb # Nil => artifactsDb \in fs

C14_Witness ==
    /\ pc = "returned"
    /\ Called("RemoveAll")
    /\ artifactsDb # Nil
    /\ \E d \in DirNames : Workspace(d) \subseteq others
    /\ \E d \in DirNames : <<d>> \in fs /\ <<d>> \notin others /\ d # dataDir

\* nothing of the workspace is left in /tmp
WorkspaceRemoved == fs \cap Workspace(dataDir) = {}

\* C17: cleanUp on a workspace that has already been removed leaves the
\* filesystem as it is and reports no failure, so a second cleanUp adds
\* nothing to the effect of the first.
C17_CleanUpIdempotent ==
    [][(pc = "cleanUp" /\ WorkspaceRemoved)
          => (fs' = fs /\ cleanUpErr' = cleanUpErr)]_vars

C17_Witness ==
    /\ pc = "returned"
    /\ Count(trace, "RemoveAll") = 2
    /\ artifactsDb # Nil
    /\ WorkspaceRemoved
    /\ ~cleanUpErr
====
